---- MODULE Spec2Model ----
(***************************************************************************)
(* Model of src/kern.c of SMCRoute: the kernel API for joining and leaving *)
(* multicast groups (kern_join_leave, group_req) and for adding and        *)
(* removing multicast forwarding-cache entries (kern_mroute4,              *)
(* kern_mroute6).                                                          *)
(*                                                                         *)
(* The caller invokes one operation at a time.  Each action below is one   *)
(* whole call: it builds the request as the code does, hands it to the     *)
(* kernel (setsockopt), and records in `last' everything the call did:     *)
(* its return value, errno, and the ordered trace of diagnostics, kernel   *)
(* requests and mrdisc calls.  The kernel is a table of memberships and    *)
(* two forwarding caches that answers the requests.                        *)
(*                                                                         *)
(* The model covers builds with HAVE_IPV6_MULTICAST_HOST defined.          *)
(***************************************************************************)
EXTENDS Integers, Sequences, FiniteSets, TLC

\* ------------------------------------------------------------------------
\* Bounds of the model
\* ------------------------------------------------------------------------

\* longest logical outbound TTL vector of a route handed to the cache managers
MaxTtlLen == 4

\* NELEMS(mc.mfcc_ttls): the kernel's maximum number of VIFs (scaled down)
MAXVIFS == 2

\* interface indexes known to the caller
Ifindexes == {1, 2}

\* TTL thresholds stored in a route's vector (0 = not forwarded)
TtlVals == {0, 3, 5}

\* socket descriptors handed in by the caller: two invalid ones, one open
Sockets == {-2, -1, 3}

\* socket descriptors handed to kern_join_leave: the "unavailable" one, one open
MembSockets == {-1, 3}

\* prefix lengths of a membership request (0 = unset)
Lens == {0, 24}

\* ------------------------------------------------------------------------
\* Build configuration
\* ------------------------------------------------------------------------

\* "rfc3678": HAVE_STRUCT_GROUP_REQ; "mreqn": legacy with struct ip_mreqn;
\* "mreq": legacy with struct ip_mreq
Builds == {"rfc3678", "mreqn", "mreq"}

\* ------------------------------------------------------------------------
\* Addresses and the address codec
\* ------------------------------------------------------------------------

Addr(fam, a) == [fam |-> fam, a |-> a]

\* the unicast sources and the multicast groups the caller uses, per family
SourcesOf(fam) == {Addr(fam, 0), Addr(fam, 1)}
GroupOf(fam) == Addr(fam, 9)
Families == {"AF_INET", "AF_INET6"}

\* true when the address is the all-zeros unspecified value
is_anyaddr(addr) == addr.a = 0

\* the raw 32-bit address of an IPv4 address
inet_addr_get(addr) == [s_addr |-> addr.a]

\* the raw 128-bit address of an IPv6 address
inet_addr6_get(addr) == [s6_addr |-> addr.a]

\* the address as text
inet_addr2str(addr) ==
    IF addr.fam = "AF_INET6" THEN "::" \o (IF addr.a = 0 THEN "" ELSE ToString(addr.a))
    ELSE "0.0.0." \o ToString(addr.a)

\* the local IPv4 address of an interface (iface->inaddr)
IfaceInaddr(ifindex) == 100 + ifindex

\* ------------------------------------------------------------------------
\* Trace events of one call
\* ------------------------------------------------------------------------

smclog(sev, msg) == [ev |-> "smclog", sev |-> sev, msg |-> msg]
KernelCall(sd, level, op, arg) ==
    [ev |-> "setsockopt", sd |-> sd, level |-> level, op |-> op, arg |-> arg]
MrdiscCall(fn, ifi) == [ev |-> fn, ifi |-> ifi]

IsLog(e) == e.ev = "smclog"
IsKernelCall(e) == e.ev = "setsockopt"
IsMrdisc(e) == e.ev \in {"mrdisc_enable", "mrdisc_disable"}

\* ------------------------------------------------------------------------
\* State
\* ------------------------------------------------------------------------

VARIABLES
    build,   \* the membership API the program was built with
    memb,    \* kernel: the socket's group memberships
    mfc4,    \* kernel: IPv4 forwarding cache, (origin, group) -> state
    mfc6,    \* kernel: IPv6 forwarding cache, (origin, group) -> state
    last,    \* the call that just returned
    prev     \* the successful join right before `last', if any

vars == <<build, memb, mfc4, mfc6, last, prev>>

NoCall == [fn |-> "none"]

\* ------------------------------------------------------------------------
\* Kernel: group memberships
\* ------------------------------------------------------------------------

\* the table key and source a membership request names, by its structure
MembKey(call) ==
    LET arg == call.arg IN
    CASE arg.struct = "group_req" ->
            [level |-> call.level, ifkey |-> <<"ifindex", arg.gr_interface>>,
             grp |-> arg.gr_group]
      [] arg.struct = "group_source_req" ->
            [level |-> call.level, ifkey |-> <<"ifindex", arg.gsr_interface>>,
             grp |-> arg.gsr_group]
      [] arg.struct = "ipv6_mreq" ->
            [level |-> call.level, ifkey |-> <<"ifindex", arg.ipv6mr_interface>>,
             grp |-> Addr("AF_INET6", arg.ipv6mr_multiaddr.s6_addr)]
      [] arg.struct = "ip_mreqn" ->
            [level |-> call.level, ifkey |-> <<"ifindex", arg.imr_ifindex>>,
             grp |-> Addr("AF_INET", arg.imr_multiaddr.s_addr)]
      [] arg.struct = "ip_mreq" ->
            [level |-> call.level, ifkey |-> <<"inaddr", arg.imr_interface>>,
             grp |-> Addr("AF_INET", arg.imr_multiaddr.s_addr)]

JoinOps == {"MCAST_JOIN_GROUP", "IP_ADD_MEMBERSHIP", "IPV6_JOIN_GROUP"}
LeaveOps == {"MCAST_LEAVE_GROUP", "IP_DROP_MEMBERSHIP", "IPV6_LEAVE_GROUP"}

KOk(tbl) == [ret |-> 0, errno |-> "0", tbl |-> tbl]
KFail(errno, tbl) == [ret |-> -1, errno |-> errno, tbl |-> tbl]

\* the kernel's answer to a membership request on table tbl
setsockopt_memb(tbl, call) ==
    LET key == MembKey(call)
        cur == {m \in tbl : m.key = key}
        rest == tbl \ cur
        src == call.arg.gsr_source
    IN
    IF call.sd < 0 THEN KFail("EBADF", tbl)
    ELSE IF call.op \in JoinOps THEN
        IF cur # {} THEN KFail("EADDRINUSE", tbl)
        ELSE KOk(tbl \cup {[key |-> key, mode |-> "EXCLUDE", srcs |-> {}]})
    ELSE IF call.op \in LeaveOps THEN
        IF cur = {} THEN KFail("EADDRNOTAVAIL", tbl)
        ELSE KOk(rest)
    ELSE IF call.op = "MCAST_JOIN_SOURCE_GROUP" THEN
        IF cur = {} THEN KOk(tbl \cup {[key |-> key, mode |-> "INCLUDE", srcs |-> {src}]})
        ELSE LET m == CHOOSE x \in cur : TRUE IN
             IF m.mode # "INCLUDE" THEN KFail("EINVAL", tbl)
             ELSE IF src \in m.srcs THEN KFail("EADDRNOTAVAIL", tbl)
             ELSE KOk(rest \cup {[m EXCEPT !.srcs = @ \cup {src}]})
    ELSE \* MCAST_LEAVE_SOURCE_GROUP
        IF cur = {} THEN KFail("EADDRNOTAVAIL", tbl)
        ELSE LET m == CHOOSE x \in cur : TRUE IN
             IF m.mode # "INCLUDE" THEN KFail("EINVAL", tbl)
             ELSE IF src \notin m.srcs THEN KFail("EADDRNOTAVAIL", tbl)
             ELSE IF m.srcs = {src} THEN KOk(rest)
             ELSE KOk(rest \cup {[m EXCEPT !.srcs = @ \ {src}]})

\* ------------------------------------------------------------------------
\* Membership strategy
\* ------------------------------------------------------------------------

\* the families the caller joins groups of on an interface: interface 1
\* carries both, every other interface IPv4 only
FamiliesOn(ifindex) == IF ifindex = 1 THEN Families ELSE {"AF_INET"}

\* the membership requests of the caller (struct mcgroup) in one family;
\* source and group of a request share the family (the caller's duty)
McGroups(fam) ==
    {[ifindex |-> i, inaddr |-> IfaceInaddr(i), source |-> s, group |-> GroupOf(fam),
      len |-> l] : i \in {j \in Ifindexes : fam \in FamiliesOn(j)},
                   s \in SourcesOf(fam), l \in Lens}

ValidMcGroups == UNION {McGroups(fam) : fam \in Families}

\* 'j', 'l' and an unset command
MembCmds == {"NUL", "j", "l"}

\* slip: a Source-Specific leave issues the Any-Source leave option
Rfc3678Op_asmleave(asm, cmd) ==
    IF asm
    THEN (IF cmd = "j" THEN "MCAST_JOIN_GROUP" ELSE "MCAST_LEAVE_GROUP")
    ELSE (IF cmd = "j" THEN "MCAST_JOIN_SOURCE_GROUP" ELSE "MCAST_LEAVE_GROUP")

\* the option group_req of the RFC 3678 API picks
Rfc3678Op(asm, cmd) ==
    IF asm
    THEN (IF cmd = "j" THEN "MCAST_JOIN_GROUP" ELSE "MCAST_LEAVE_GROUP")
    ELSE (IF cmd = "j" THEN "MCAST_JOIN_SOURCE_GROUP" ELSE "MCAST_LEAVE_SOURCE_GROUP")

\* group_req of the RFC 3678 API: the diagnostic and the kernel request
group_req_rfc3678(sd, cmd, mcg) ==
    LET proto == IF mcg.group.fam = "AF_INET6" THEN "IPPROTO_IPV6" ELSE "IPPROTO_IP"
        asm == is_anyaddr(mcg.source)
        op == Rfc3678Op(asm, cmd)
        arg == IF asm
               THEN [struct |-> "group_req", gr_interface |-> mcg.ifindex,
                     gr_group |-> mcg.group]
               ELSE [struct |-> "group_source_req", gsr_interface |-> mcg.ifindex,
                     gsr_source |-> mcg.source, gsr_group |-> mcg.group]
        source == IF asm THEN "*" ELSE inet_addr2str(mcg.source)
        group == inet_addr2str(mcg.group)
    IN <<smclog("LOG_DEBUG", <<IF cmd = "j" THEN "Join" ELSE "Leave", "group", source,
                               group, mcg.ifindex, sd>>),
         KernelCall(sd, proto, op, arg)>>

\* slip: the IPv6 request joins whatever the command
LegacyOp_v6join(v6, cmd) ==
    IF v6 THEN "IPV6_JOIN_GROUP"
    ELSE (IF cmd = "j" THEN "IP_ADD_MEMBERSHIP" ELSE "IP_DROP_MEMBERSHIP")

\* the option group_req of the old API picks
LegacyOp(v6, cmd) ==
    IF v6 THEN (IF cmd = "j" THEN "IPV6_JOIN_GROUP" ELSE "IPV6_LEAVE_GROUP")
    ELSE (IF cmd = "j" THEN "IP_ADD_MEMBERSHIP" ELSE "IP_DROP_MEMBERSHIP")

\* group_req of the old struct ip_mreq API
group_req_legacy(sd, cmd, mcg, mreqn) ==
    LET v6 == mcg.group.fam = "AF_INET6"
        proto == IF v6 THEN "IPPROTO_IPV6" ELSE "IPPROTO_IP"
        op == LegacyOp(v6, cmd)
        arg == IF v6
               THEN [struct |-> "ipv6_mreq",
                     ipv6mr_multiaddr |-> inet_addr6_get(mcg.group),
                     ipv6mr_interface |-> mcg.ifindex]
               ELSE IF mreqn
               THEN [struct |-> "ip_mreqn", imr_multiaddr |-> inet_addr_get(mcg.group),
                     imr_ifindex |-> mcg.ifindex]
               ELSE [struct |-> "ip_mreq", imr_multiaddr |-> inet_addr_get(mcg.group),
                     imr_interface |-> mcg.inaddr]
    IN <<smclog("LOG_DEBUG", <<IF cmd = "j" THEN "Join" ELSE "Leave", "group", "*",
                               inet_addr2str(mcg.group), mcg.ifindex>>),
         KernelCall(sd, proto, op, arg)>>

\* the group_req the build compiled in
group_req(bld, sd, cmd, mcg) ==
    IF bld = "rfc3678" THEN group_req_rfc3678(sd, cmd, mcg)
    ELSE group_req_legacy(sd, cmd, mcg, bld = "mreqn")

\* slip: the prefix length is logged as it is
JoinLeaveError_rawlen(sd, cmd, mcg, errno) ==
    LET source == IF ~is_anyaddr(mcg.source) THEN inet_addr2str(mcg.source) ELSE "*"
        group == inet_addr2str(mcg.group)
    IN smclog("LOG_ERR", <<"Failed", IF cmd = "j" THEN "joining" ELSE "leaving", "group",
                           source, group, mcg.len, sd, errno>>)

\* the error diagnostic of kern_join_leave
JoinLeaveError(sd, cmd, mcg, errno) ==
    LET source == IF ~is_anyaddr(mcg.source) THEN inet_addr2str(mcg.source) ELSE "*"
        group == inet_addr2str(mcg.group)
        len == IF mcg.len = 0 THEN 32 ELSE mcg.len
    IN smclog("LOG_ERR", <<"Failed", IF cmd = "j" THEN "joining" ELSE "leaving", "group",
                           source, group, len, sd, errno>>)

\* variant: kern_join_leave gives up on a missing socket as the cache
\* managers do
JoinLeaveResult_sockcheck(sd, cmd, mcg, req, k) ==
    IF sd < 0
    THEN [ret |-> -1, trace |-> <<smclog("LOG_DEBUG", <<"No multicast socket">>)>>]
    ELSE IF k.ret # 0
    THEN [ret |-> 1, trace |-> req \o <<JoinLeaveError(sd, cmd, mcg, k.errno)>>]
    ELSE [ret |-> 0, trace |-> req]

\* the return value and trace of kern_join_leave, given the kernel's answer k
\* to the request req that group_req built
JoinLeaveResult(sd, cmd, mcg, req, k) ==
    IF k.ret # 0
    THEN [ret |-> 1, trace |-> req \o <<JoinLeaveError(sd, cmd, mcg, k.errno)>>]
    ELSE [ret |-> 0, trace |-> req]

kern_join_leave ==
    \E sd \in MembSockets, cmdIn \in MembCmds, mcg \in ValidMcGroups :
        LET cmd == IF cmdIn = "NUL" THEN "j" ELSE cmdIn
            req == group_req(build, sd, cmd, mcg)
            k == setsockopt_memb(memb, req[2])
            res == JoinLeaveResult(sd, cmd, mcg, req, k)
        IN /\ memb' = k.tbl
           /\ last' = [fn |-> "kern_join_leave", sd |-> sd, cmd |-> cmd,
                       mcg |-> mcg, ret |-> res.ret, errno |-> k.errno,
                       trace |-> res.trace, pre |-> memb]
           /\ prev' = IF last.fn = "kern_join_leave" /\ last.cmd = "j" /\ last.ret = 0
                      THEN [fn |-> "join", sd |-> last.sd, ifindex |-> last.mcg.ifindex,
                            source |-> last.mcg.source, group |-> last.mcg.group,
                            pre |-> last.pre]
                      ELSE NoCall
           /\ UNCHANGED <<build, mfc4, mfc6>>

\* ------------------------------------------------------------------------
\* Kernel: forwarding caches
\* ------------------------------------------------------------------------

\* the (origin, group) keys of the two forwarding caches, in wire form
MfcKeys4 == {<<inet_addr_get(s), inet_addr_get(GroupOf("AF_INET"))>> :
                s \in SourcesOf("AF_INET")}
MfcKeys6 == {<<inet_addr6_get(s), inet_addr6_get(GroupOf("AF_INET6"))>> :
                s \in SourcesOf("AF_INET6")}

\* faults the kernel may answer a forwarding-cache request with, whatever
\* the table holds (no permission, ...)
Faults == {"none", "EPERM"}

MfcKey(call) ==
    IF call.arg.struct = "mfcctl"
    THEN <<call.arg.mfcc_origin, call.arg.mfcc_mcastgrp>>
    ELSE <<call.arg.mf6cc_origin, call.arg.mf6cc_mcastgrp>>

\* the kernel's answer to a forwarding-cache request on table tbl
setsockopt_mfc(tbl, call, fault) ==
    LET key == MfcKey(call) IN
    IF call.sd < 0 THEN KFail("EBADF", tbl)
    ELSE IF fault # "none" THEN KFail(fault, tbl)
    ELSE IF call.op \in {"MRT_ADD_MFC", "MRT6_ADD_MFC"}
    THEN KOk([tbl EXCEPT ![key] = "INSTALLED"])
    ELSE IF tbl[key] = "ABSENT" THEN KFail("ENOENT", tbl)
    ELSE KOk([tbl EXCEPT ![key] = "ABSENT"])

\* ------------------------------------------------------------------------
\* Forwarding-cache managers
\* ------------------------------------------------------------------------

\* the outbound TTL vectors: ttl[0 .. L-1] for every length L up to MaxTtlLen
TtlVectors == UNION {[0 .. (L - 1) -> TtlVals] : L \in 1 .. MaxTtlLen}

NELEMS(vec) == Cardinality(DOMAIN vec)

\* an idle and a forwarding outbound vector
FewTtlVectors == {[i \in 0 .. 1 |-> 0], [i \in 0 .. 1 |-> IF i = 1 THEN 5 ELSE 0]}

\* the routes of the caller (struct mroute) with their vectors among ttls
Routes(fam, sources, inbounds, ttls) ==
    {[source |-> s, group |-> GroupOf(fam), inbound |-> p, ttl |-> t] :
        s \in sources, p \in inbounds, t \in ttls}

\* 'a' and 'r'
MrouteCmds == {"a", "r"}

\* what reading route->ttl[i] yields: the element, or whatever lies behind
\* the vector (garbage[i]) when i is past its end
ReadTtl(ttl, garbage, i) == IF i \in DOMAIN ttl THEN ttl[i] ELSE garbage[i]

\* the TTL copy loop of kern_mroute4 into the zeroed mfcc_ttls, from index i on
RECURSIVE CopyTtls(_, _, _, _)
CopyTtls(ttls, ttl, garbage, i) ==
    IF i < MAXVIFS
    THEN CopyTtls([ttls EXCEPT ![i] = ReadTtl(ttl, garbage, i)], ttl, garbage, i + 1)
    ELSE ttls

\* the indexes of route->ttl the copy loop of kern_mroute4 reads
TtlReads == 0 .. (MAXVIFS - 1)

\* the struct mfcctl kern_mroute4 builds
BuildMfcctl(route, garbage) ==
    [struct |-> "mfcctl",
     mfcc_origin |-> inet_addr_get(route.source),
     mfcc_mcastgrp |-> inet_addr_get(route.group),
     mfcc_parent |-> route.inbound,
     mfcc_ttls |-> CopyTtls([i \in 0 .. (MAXVIFS - 1) |-> 0], route.ttl, garbage, 0)]

\* the option kern_mroute4 submits
Mroute4Op(cmd) == IF cmd = "a" THEN "MRT_ADD_MFC" ELSE "MRT_DEL_MFC"

\* is the socket of kern_mroute4 missing
NoSocket4(sd) == sd = -1

\* slip: discovery is enabled whatever the command
Mrdisc4_enable(cmd, route) == MrdiscCall("mrdisc_enable", route.inbound)

\* the mrdisc call of kern_mroute4 for an active route
Mrdisc4(cmd, route) ==
    IF cmd = "a" THEN MrdiscCall("mrdisc_enable", route.inbound)
    ELSE MrdiscCall("mrdisc_disable", route.inbound)

\* the diagnostic of kern_mroute4 for a rejected request
Mroute4Error(cmd, origin, group, errno) ==
    IF errno = "ENOENT"
    THEN smclog("LOG_DEBUG", <<"failed removing multicast route", origin, group,
                               "does not exist">>)
    ELSE smclog("LOG_DEBUG", <<"failed", IF cmd = "a" THEN "adding" ELSE "removing",
                               "IPv4 multicast route", origin, group, errno>>)

\* variant: kern_mroute4 takes the removal of a missing route for a success
Mroute4Result_enoentok(cmd, route, active, call, k) ==
    LET origin == inet_addr2str(route.source)
        group == inet_addr2str(route.group)
    IN
    IF k.ret # 0
    THEN [ret |-> IF k.errno = "ENOENT" THEN 0 ELSE 1,
          trace |-> <<call, Mroute4Error(cmd, origin, group, k.errno)>>]
    ELSE IF active
    THEN [ret |-> 0,
          trace |-> <<call,
                      smclog("LOG_DEBUG", <<IF cmd = "a" THEN "Add" ELSE "Del", origin,
                                            group, route.inbound>>),
                      Mrdisc4(cmd, route)>>]
    ELSE [ret |-> 0, trace |-> <<call>>]

\* the return value and trace of kern_mroute4 past the socket check, given
\* the kernel's answer k to the request call
Mroute4Result(cmd, route, active, call, k) ==
    LET origin == inet_addr2str(route.source)
        group == inet_addr2str(route.group)
    IN
    IF k.ret # 0
    THEN [ret |-> 1, trace |-> <<call, Mroute4Error(cmd, origin, group, k.errno)>>]
    ELSE IF active
    THEN [ret |-> 0,
          trace |-> <<call,
                      smclog("LOG_DEBUG", <<IF cmd = "a" THEN "Add" ELSE "Del", origin,
                                            group, route.inbound>>),
                      Mrdisc4(cmd, route)>>]
    ELSE [ret |-> 0, trace |-> <<call>>]

\* one call of kern_mroute4 with its arguments drawn from the given sets
kern_mroute4_call(sds, cmds, routes, actives, faults) ==
    \E sd \in sds, cmd \in cmds, route \in routes,
       active \in actives, fault \in faults :
        LET op == Mroute4Op(cmd) IN
        /\ prev' = NoCall
        /\ UNCHANGED <<build, memb, mfc6>>
        /\ IF NoSocket4(sd)
           THEN /\ mfc4' = mfc4
                /\ last' = [fn |-> "kern_mroute4", sd |-> sd, cmd |-> cmd,
                            route |-> route, active |-> active, ret |-> -1,
                            errno |-> "0", reads |-> {},
                            trace |-> <<smclog("LOG_DEBUG", <<"No IPv4 multicast socket">>)>>,
                            pre |-> mfc4, other |-> mfc6]
           ELSE \E g \in [(0 .. (MAXVIFS - 1)) \ DOMAIN route.ttl -> TtlVals] :
                LET mc == BuildMfcctl(route, g)
                    call == KernelCall(sd, "IPPROTO_IP", op, mc)
                    k == setsockopt_mfc(mfc4, call, fault)
                    res == Mroute4Result(cmd, route, active, call, k)
                IN /\ mfc4' = k.tbl
                   /\ last' = [fn |-> "kern_mroute4", sd |-> sd, cmd |-> cmd,
                               route |-> route, active |-> active, ret |-> res.ret,
                               errno |-> k.errno, reads |-> TtlReads,
                               trace |-> res.trace, pre |-> mfc4, other |-> mfc6]

\* IF_SET(i, &set) on a bitset held as a number
IF_SET(i, set) == IF (set \div (2 ^ i)) % 2 = 1 THEN set ELSE set + 2 ^ i

\* slip: the bit is set whatever the TTL
IfsetStep_always(set, ttl, i) == IF_SET(i, set)

\* one round of the loop of kern_mroute6: the bit of a nonzero TTL is set
IfsetStep(set, ttl, i) == IF ttl[i] # 0 THEN IF_SET(i, set) ELSE set

\* the loop of kern_mroute6 over route->ttl into the cleared bitset, from i on
RECURSIVE BuildIfset(_, _, _)
BuildIfset(set, ttl, i) ==
    IF i < NELEMS(ttl)
    THEN BuildIfset(IfsetStep(set, ttl, i), ttl, i + 1)
    ELSE set

\* the struct mf6cctl kern_mroute6 builds
BuildMf6cctl(route) ==
    [struct |-> "mf6cctl",
     mf6cc_origin |-> inet_addr6_get(route.source),
     mf6cc_mcastgrp |-> inet_addr6_get(route.group),
     mf6cc_parent |-> route.inbound,
     mf6cc_ifset |-> BuildIfset(0, route.ttl, 0)]

\* slip: kern_mroute6 adds whatever the command
Mroute6Op_add(cmd) == "MRT6_ADD_MFC"

\* the option kern_mroute6 submits
Mroute6Op(cmd) == IF cmd = "a" THEN "MRT6_ADD_MFC" ELSE "MRT6_DEL_MFC"

\* is the socket of kern_mroute6 missing
NoSocket6(sd) == sd < 0

\* the diagnostic of kern_mroute6 for a rejected request
Mroute6Error(cmd, origin, group, errno) ==
    IF errno = "ENOENT"
    THEN smclog("LOG_DEBUG", <<"failed removing IPv6 multicast route", origin, group,
                               "does not exist">>)
    ELSE smclog("LOG_WARNING", <<"failed", IF cmd = "a" THEN "adding" ELSE "removing",
                                 "IPv6 multicast route", origin, group, errno>>)

\* the return value and trace of kern_mroute6 past the socket check
Mroute6Result(cmd, route, call, k) ==
    IF k.ret # 0
    THEN [ret |-> 1,
          trace |-> <<call, Mroute6Error(cmd, inet_addr2str(route.source),
                                         inet_addr2str(route.group), k.errno)>>]
    ELSE [ret |-> 0, trace |-> <<call>>]

\* one call of kern_mroute6 with its arguments drawn from the given sets
kern_mroute6_call(sds, cmds, routes, faults) ==
    \E sd \in sds, cmd \in cmds, route \in routes, fault \in faults :
        LET op == Mroute6Op(cmd) IN
        /\ prev' = NoCall
        /\ UNCHANGED <<build, memb, mfc4>>
        /\ IF NoSocket6(sd)
           THEN /\ mfc6' = mfc6
                /\ last' = [fn |-> "kern_mroute6", sd |-> sd, cmd |-> cmd,
                            route |-> route, ret |-> -1, errno |-> "0",
                            trace |-> <<smclog("LOG_DEBUG", <<"No IPv6 multicast socket">>)>>,
                            pre |-> mfc6, other |-> mfc4]
           ELSE LET call == KernelCall(sd, "IPPROTO_IPV6", op, BuildMf6cctl(route))
                    k == setsockopt_mfc(mfc6, call, fault)
                    res == Mroute6Result(cmd, route, call, k)
                IN /\ mfc6' = k.tbl
                   /\ last' = [fn |-> "kern_mroute6", sd |-> sd, cmd |-> cmd,
                               route |-> route, ret |-> res.ret, errno |-> k.errno,
                               trace |-> res.trace, pre |-> mfc6, other |-> mfc4]

\* ------------------------------------------------------------------------
\* Specifications
\* ------------------------------------------------------------------------

Init ==
    /\ build \in Builds
    /\ memb = {}
    /\ mfc4 = [k \in MfcKeys4 |-> "ABSENT"]
    /\ mfc6 = [k \in MfcKeys6 |-> "ABSENT"]
    /\ last = NoCall
    /\ prev = NoCall

\* the cache managers do not depend on the membership API of the build
InitMfc == Init /\ build = "rfc3678"

\* the caller installs and removes routes over any socket, with the kernel
\* free to reject a request
kern_mroute4 ==
    kern_mroute4_call(Sockets, MrouteCmds,
                      Routes("AF_INET", SourcesOf("AF_INET"), Ifindexes, FewTtlVectors),
                      BOOLEAN, Faults)
kern_mroute6 ==
    kern_mroute6_call(Sockets, MrouteCmds,
                      Routes("AF_INET6", SourcesOf("AF_INET6"), Ifindexes, FewTtlVectors),
                      Faults)

\* the caller installs, over an open socket, routes with every outbound vector
kern_mroute4_ttls ==
    kern_mroute4_call({3}, {"a"}, Routes("AF_INET", {Addr("AF_INET", 1)}, {1}, TtlVectors),
                      {FALSE}, {"none"})
kern_mroute6_ttls ==
    kern_mroute6_call({3}, {"a"}, Routes("AF_INET6", {Addr("AF_INET6", 1)}, {1}, TtlVectors),
                      {"none"})

\* the caller changes memberships
NextMemb == kern_join_leave

\* the caller changes the forwarding caches
NextMfc == kern_mroute4 \/ kern_mroute6

\* the caller changes the forwarding caches, with every outbound vector
NextTtl == kern_mroute4_ttls \/ kern_mroute6_ttls

Next == kern_join_leave \/ kern_mroute4 \/ kern_mroute6

SpecMemb == Init /\ [][NextMemb]_vars
SpecMfc == InitMfc /\ [][NextMfc]_vars
SpecTtl == InitMfc /\ [][NextTtl]_vars
Spec == Init /\ [][Next]_vars

\* ------------------------------------------------------------------------
\* Properties of the membership strategy
\* ------------------------------------------------------------------------

IsJoinLeave == last.fn = "kern_join_leave"

\* the kernel requests the last call made
KernelCalls == SelectSeq(last.trace, IsKernelCall)

\* the diagnostics of the given severity the last call emitted
LogsAt(sev) == SelectSeq(last.trace, LAMBDA e : IsLog(e) /\ e.sev = sev)

\* the Any-Source and the Source-Specific option for a command
AnySourceOps(cmd) ==
    IF cmd = "j" THEN {"MCAST_JOIN_GROUP", "IP_ADD_MEMBERSHIP", "IPV6_JOIN_GROUP"}
    ELSE {"MCAST_LEAVE_GROUP", "IP_DROP_MEMBERSHIP", "IPV6_LEAVE_GROUP"}
SourceSpecificOps(cmd) ==
    IF cmd = "j" THEN {"MCAST_JOIN_SOURCE_GROUP"} ELSE {"MCAST_LEAVE_SOURCE_GROUP"}

\* the request of the last call follows the source: Any-Source for "any",
\* Source-Specific for a concrete source
OptionFollowsSource ==
    /\ Len(KernelCalls) = 1
    /\ IF last.mcg.source.a = 0
       THEN KernelCalls[1].op \in AnySourceOps(last.cmd)
       ELSE KernelCalls[1].op \in SourceSpecificOps(last.cmd)

\* C1 as stated: every membership request, JOIN or LEAVE, issues the
\* Any-Source option when its source is "any" and the Source-Specific option
\* when its source is concrete, never the other variant.
C1_AsStated == IsJoinLeave => OptionFollowsSource

\* C1, amended: in a build with the RFC 3678 API the option follows the
\* source; in a build with the legacy API every request, concrete source or
\* not, issues the Any-Source option of the group's family and carries no
\* source.
C1_OptionByBuild ==
    IsJoinLeave =>
        IF build = "rfc3678" THEN OptionFollowsSource
        ELSE /\ Len(KernelCalls) = 1
             /\ KernelCalls[1].op \in AnySourceOps(last.cmd)
             /\ KernelCalls[1].op \notin {"MCAST_JOIN_GROUP", "MCAST_LEAVE_GROUP"}
             /\ KernelCalls[1].arg.struct \in {"ip_mreq", "ip_mreqn", "ipv6_mreq"}

\* a Source-Specific leave was issued for a concrete source
C1_Witness ==
    /\ IsJoinLeave
    /\ build = "rfc3678"
    /\ last.mcg.source.a # 0
    /\ last.cmd = "l"
    /\ KernelCalls[1].op = "MCAST_LEAVE_SOURCE_GROUP"
    /\ KernelCalls[1].arg.gsr_source = last.mcg.source

\* the options that undo each other
OpPairs ==
    {<<"MCAST_JOIN_GROUP", "MCAST_LEAVE_GROUP">>,
     <<"MCAST_JOIN_SOURCE_GROUP", "MCAST_LEAVE_SOURCE_GROUP">>,
     <<"IP_ADD_MEMBERSHIP", "IP_DROP_MEMBERSHIP">>,
     <<"IPV6_JOIN_GROUP", "IPV6_LEAVE_GROUP">>}

\* the request the build makes for the same fields under the other command
Twin == group_req(build, last.sd, IF last.cmd = "j" THEN "l" ELSE "j", last.mcg)[2]

\* C7: the LEAVE request has the shape of the JOIN request for the same
\* fields (same level, structure, interface, group and source; only the
\* option differs, each join option with its own leave option), and a LEAVE
\* right after a successful JOIN with identical fields succeeds and leaves
\* the membership table as it was before the JOIN.
C7_LeaveInvertsJoin ==
    IsJoinLeave =>
        /\ Len(KernelCalls) = 1
        /\ Twin.level = KernelCalls[1].level
        /\ Twin.arg = KernelCalls[1].arg
        /\ Twin.sd = KernelCalls[1].sd
        /\ IF last.cmd = "j" THEN <<KernelCalls[1].op, Twin.op>> \in OpPairs
           ELSE <<Twin.op, KernelCalls[1].op>> \in OpPairs
        /\ (/\ prev.fn = "join"
            /\ last.cmd = "l"
            /\ last.sd = prev.sd
            /\ last.mcg.ifindex = prev.ifindex
            /\ last.mcg.source = prev.source
            /\ last.mcg.group = prev.group)
           => (last.ret = 0 /\ memb = prev.pre)

\* a Source-Specific LEAVE right after its JOIN, with other memberships held
C7_Witness ==
    /\ IsJoinLeave
    /\ prev.fn = "join"
    /\ last.cmd = "l"
    /\ last.sd = prev.sd
    /\ last.mcg.ifindex = prev.ifindex
    /\ last.mcg.source = prev.source
    /\ last.mcg.group = prev.group
    /\ last.mcg.source.a # 0
    /\ last.ret = 0
    /\ memb # {}
    /\ last.pre # memb

\* C9 as stated: given the "unavailable" socket value, kern_join_leave
\* reports a precondition failure without attempting the kernel call, as the
\* cache managers do.
C9_AsStated ==
    (IsJoinLeave /\ last.sd = -1) => (last.ret = -1 /\ Len(KernelCalls) = 0)

\* C9, amended: given the "unavailable" socket value, kern_join_leave still
\* issues its one kernel request on that value; the kernel rejects it and
\* the call returns the generic failure 1 after an error-severity
\* diagnostic, with no membership changed.
C9_NoSocketCheck ==
    (IsJoinLeave /\ last.sd = -1) =>
        /\ Len(KernelCalls) = 1
        /\ KernelCalls[1].sd = -1
        /\ last.errno = "EBADF"
        /\ last.ret = 1
        /\ Len(LogsAt("LOG_ERR")) = 1
        /\ memb = last.pre

\* a join on the "unavailable" socket value returned
C9_Witness ==
    /\ IsJoinLeave
    /\ last.sd = -1
    /\ last.cmd = "j"
    /\ last.ret = 1

\* C10: every kern_join_leave call emits one debug-severity diagnostic and
\* then issues exactly one kernel request; it returns success exactly when
\* the kernel accepts; on rejection it emits exactly one error-severity
\* diagnostic (source "*" for "any", prefix length 32 for length 0) and
\* returns the generic failure.
C10_OneRequestPerCall ==
    IsJoinLeave =>
        /\ Len(last.trace) >= 2
        /\ IsLog(last.trace[1]) /\ last.trace[1].sev = "LOG_DEBUG"
        /\ IsKernelCall(last.trace[2])
        /\ Len(KernelCalls) = 1
        /\ Len(LogsAt("LOG_DEBUG")) = 1
        /\ (last.ret = 0) = (last.errno = "0")
        /\ IF last.errno = "0"
           THEN Len(last.trace) = 2
           ELSE /\ Len(last.trace) = 3
                /\ IsLog(last.trace[3]) /\ last.trace[3].sev = "LOG_ERR"
                /\ (last.trace[3].msg[4] = "*") = (last.mcg.source.a = 0)
                /\ last.trace[3].msg[6] = (IF last.mcg.len = 0 THEN 32 ELSE last.mcg.len)
                /\ last.trace[3].msg[7] = last.sd
                /\ last.ret = 1

\* a request with source "any" and length 0 was rejected on an open socket
C10_Witness ==
    /\ IsJoinLeave
    /\ last.sd = 3
    /\ last.errno # "0"
    /\ last.mcg.source.a = 0
    /\ last.mcg.len = 0
    /\ last.trace[3].msg[4] = "*"
    /\ last.trace[3].msg[6] = 32

\* ------------------------------------------------------------------------
\* Properties of the forwarding-cache managers
\* ------------------------------------------------------------------------

IsMroute4 == last.fn = "kern_mroute4"
IsMroute6 == last.fn = "kern_mroute6"
IsMroute == IsMroute4 \/ IsMroute6

\* the mrdisc calls the last call made
MrdiscCalls == SelectSeq(last.trace, IsMrdisc)

\* the diagnostics the last call emitted
Logs == SelectSeq(last.trace, IsLog)

\* C2: for both cache managers, ADD and DELETE, every negative socket
\* descriptor gets the "no socket" outcome with no kernel call and no
\* discovery call.
C2_NoSocketOutcome ==
    (IsMroute /\ last.sd < 0) =>
        /\ last.ret = -1
        /\ Len(KernelCalls) = 0
        /\ Len(MrdiscCalls) = 0

\* the outcome the cache manager of the last call returns when the kernel
\* rejects the request for another reason than a missing entry
OperationalFailureOutcome ==
    IF IsMroute4
    THEN Mroute4Result(last.cmd, last.route, last.active, KernelCalls[1],
                       KFail("EPERM", last.pre)).ret
    ELSE Mroute6Result(last.cmd, last.route, KernelCalls[1],
                       KFail("EPERM", last.pre)).ret

\* the kernel rejected the DELETE of the last call for a missing entry
DeleteOfMissing ==
    /\ IsMroute
    /\ last.cmd = "r"
    /\ Len(KernelCalls) = 1
    /\ last.errno = "ENOENT"

\* C3 as stated: the DELETE of an entry that was never installed returns an
\* outcome the caller can tell from the outcome of an operational failure.
C3_AsStated == DeleteOfMissing => last.ret # OperationalFailureOutcome

\* C3, amended: for both cache managers every request the kernel rejects
\* returns the same failure value 1, the DELETE of an entry that was never
\* installed included; that DELETE differs from an operational failure only
\* in its diagnostic, one debug-severity "does not exist" message.
C3_SameFailureValue ==
    /\ (IsMroute /\ Len(KernelCalls) = 1 /\ last.errno # "0") => last.ret = 1
    /\ DeleteOfMissing =>
        /\ last.ret = OperationalFailureOutcome
        /\ Len(Logs) = 1
        /\ Logs[1].sev = "LOG_DEBUG"
        /\ Logs[1].msg[Len(Logs[1].msg)] = "does not exist"

\* kern_mroute4 was asked to remove a route the cache never held
C3_Witness ==
    /\ IsMroute4
    /\ DeleteOfMissing
    /\ last.sd = 3
    /\ \A k \in DOMAIN last.pre : last.pre[k] = "ABSENT"
    /\ last.ret = 1

\* the smaller of two numbers
Min(a, b) == IF a < b THEN a ELSE b

\* C4: kern_mroute4 copies exactly min(L, M) elements of the entry's vector
\* of length L into the M positions of the cache-control structure, element
\* i to position i; it writes no position past M-1, reads no element past
\* L-1, and leaves the positions it did not copy 0.
C4_CopyBounded ==
    (IsMroute4 /\ Len(KernelCalls) = 1) =>
        LET ttl == last.route.ttl
            n == Min(NELEMS(ttl), MAXVIFS)
            mc == KernelCalls[1].arg.mfcc_ttls
        IN /\ DOMAIN mc = 0 .. (MAXVIFS - 1)
           /\ \A i \in 0 .. (n - 1) : mc[i] = ttl[i]
           /\ \A i \in n .. (MAXVIFS - 1) : mc[i] = 0
           /\ last.reads \subseteq DOMAIN ttl

\* is bit i of the number set
Bit(set, i) == (set \div (2 ^ i)) % 2 = 1

\* C5: the bitset kern_mroute6 submits has bit i set exactly when element i
\* of the outbound vector is nonzero; no bit is set for a TTL of 0 or for an
\* index outside the vector.
C5_BitsetMatchesTtls ==
    (IsMroute6 /\ Len(KernelCalls) = 1) =>
        LET ttl == last.route.ttl
            ifset == KernelCalls[1].arg.mf6cc_ifset
        IN /\ \A i \in 0 .. (MaxTtlLen + 1) :
                Bit(ifset, i) = (i \in DOMAIN ttl /\ ttl[i] # 0)
           /\ ifset < 2 ^ NELEMS(ttl)

\* the vector [0, 5, 0, 3] was submitted with bits 1 and 3 set only
C5_Witness ==
    /\ IsMroute6
    /\ Len(KernelCalls) = 1
    /\ last.route.ttl = [i \in 0 .. 3 |-> CASE i = 1 -> 5 [] i = 3 -> 3 [] OTHER -> 0]
    /\ KernelCalls[1].arg.mf6cc_ifset = 10

\* C6: one kern_mroute4 call makes exactly one discovery call, after the
\* kernel call has succeeded and on the entry's inbound interface, when the
\* route is active: enable for ADD, disable for DELETE.  It makes none when
\* the route is not active, when the kernel call fails, or on "no socket".
C6_DiscoveryAfterSuccess ==
    IsMroute4 =>
        IF last.active /\ last.ret = 0
        THEN /\ Len(MrdiscCalls) = 1
             /\ MrdiscCalls[1].ev =
                    (IF last.cmd = "a" THEN "mrdisc_enable" ELSE "mrdisc_disable")
             /\ MrdiscCalls[1].ifi = last.route.inbound
             /\ last.errno = "0"
             /\ Len(KernelCalls) = 1
             /\ IsKernelCall(last.trace[1])
             /\ IsMrdisc(last.trace[Len(last.trace)])
        ELSE /\ Len(MrdiscCalls) = 0
             /\ (~last.active \/ last.ret = -1 \/ last.errno # "0")

\* an active route on inbound interface 2 was removed and discovery disabled
C6_Witness ==
    /\ IsMroute4
    /\ last.active
    /\ last.cmd = "r"
    /\ last.ret = 0
    /\ last.route.inbound = 2
    /\ MrdiscCalls = <<MrdiscCall("mrdisc_disable", 2)>>

\* the (origin, group) key of the route of the last call
RouteKey ==
    IF IsMroute4
    THEN <<[s_addr |-> last.route.source.a], [s_addr |-> last.route.group.a]>>
    ELSE <<[s6_addr |-> last.route.source.a], [s6_addr |-> last.route.group.a]>>

\* the forwarding cache of the family of the last call
Cache == IF IsMroute4 THEN mfc4 ELSE mfc6

\* the forwarding cache of the other family
OtherCache == IF IsMroute4 THEN mfc6 ELSE mfc4

====
